---- MODULE Spec2Model ----
(***************************************************************************)
(* Model of src/plugins/reactNodeViewPlugin.ts: the position -> registry   *)
(* key map kept by reactNodeViewPlugin (state.init / state.apply) and the  *)
(* upward search findNearestRegistryKey.                                   *)
(*                                                                         *)
(* The host document (prosemirror-model) is modelled as its flat token     *)
(* sequence, which is what ProseMirror positions index: a node with        *)
(* content is an opening token (its type name), its content and a closing  *)
(* token "/"; a text node is a maximal run of "t" tokens (one per          *)
(* character).  Position p lies before token p+1; a node "at p" starts     *)
(* with token p+1.  The root node itself has no tokens and no position.    *)
(***************************************************************************)
EXTENDS Integers, Sequences, FiniteSets, TLC

\* ---- bounds ----
MaxLen == 5
NumKeys == 3
MaxDel == 1
MaxTr == 2
MaxPasses == 1

\* ---- host document model ----
Types == {"a", "b"}
Close == "/"
Text == "t"
Tokens == Types \cup {Close, Text}

\* the type name of the root node (the schema's top node); the root has no
\* token, so no position ever holds this name
RootType == "doc"

\* the type names a node view constructor can be registered for
ViewTypes == Types \cup {RootType}

\* the sentinel imported from ../contexts/PortalRegistryContext.js
PORTAL_REGISTRY_ROOT_KEY == "@@root"

HexDigits == <<"0", "1", "2", "3", "4", "5", "6", "7", "8", "9", "a", "b", "c", "d", "e", "f">>

\* Math.floor(Math.random() * 0xffffff).toString(16): any value of the key
\* space, rendered in hexadecimal; nothing is remembered between calls.
createRegistryKey == {HexDigits[n + 1] : n \in 0 .. (NumKeys - 1)}

\* number of ancestors (root excluded) open at position p
DepthAt(toks, p) ==
  Cardinality({j \in 1 .. p : toks[j] \in Types}) - Cardinality({j \in 1 .. p : toks[j] = Close})

WellFormed(toks) ==
  /\ \A p \in 0 .. Len(toks) : DepthAt(toks, p) >= 0
  /\ DepthAt(toks, Len(toks)) = 0

\* node.isText for the node starting at p
isText(toks, p) == toks[p + 1] = Text

\* the positions doc.descendants hands to its callback: the start of every
\* node below the root, text nodes included
NodeStarts(toks) ==
  {p \in 0 .. (Len(toks) - 1) :
     \/ toks[p + 1] \in Types
     \/ toks[p + 1] = Text /\ (p = 0 \/ toks[p] # Text)}

StructuralStarts(toks) == {p \in NodeStarts(toks) : ~isText(toks, p)}
TextStarts(toks) == {p \in NodeStarts(toks) : isText(toks, p)}

SetMin(S) == CHOOSE x \in S : \A y \in S : x <= y

\* Map.prototype.set / get on a map kept as a function
MapSet(m, k, v) == [x \in (DOMAIN m) \cup {k} |-> IF x = k THEN v ELSE m[x]]
MapHas(m, k) == k \in DOMAIN m
EmptyMap == [x \in {} |-> "0"]
Values(m) == {m[x] : x \in DOMAIN m}

\* ---- host transactions (prosemirror-transform) ----
\* the content a ReplaceStep can put in place of the range it replaces
Slices == {<<>>, <<"t">>, <<"a", "/">>, <<"b", "/">>, <<"/", "a">>}

\* a transaction without steps: tr.docChanged is false
NoStepTr == [docChanged |-> FALSE, from |-> 0, to |-> 0, slice |-> <<>>]

\* a transaction of one ReplaceStep(from, to, slice)
ReplaceTr(from, to, slice) == [docChanged |-> TRUE, from |-> from, to |-> to, slice |-> slice]

\* the document a transaction produces
ApplyStep(toks, t) ==
  IF t.docChanged
    THEN SubSeq(toks, 1, t.from) \o t.slice \o SubSeq(toks, t.to + 1, Len(toks))
    ELSE toks

\* tr.mapping.invert().map(pos): the step map of the step is
\* [from, to - from, slice.size]; inverted it is [from, slice.size, to - from],
\* and StepMap.map is applied with the default assoc = 1.
InvertMap(t, pos) ==
  LET start == t.from
      oldSize == Len(t.slice)
      newSize == t.to - t.from
      end == start + oldSize
      side == IF oldSize = 0 THEN 1 ELSE IF pos = start THEN -1 ELSE 1
  IN IF ~t.docChanged \/ start > pos THEN pos
     ELSE IF pos <= end THEN start + (IF side < 0 THEN 0 ELSE newSize)
     ELSE pos + (newSize - oldSize)

\* ---- reactNodeViewPlugin.state ----
\* state.init: one createRegistryKey() per node doc.descendants visits
InitResults(toks) == [NodeStarts(toks) -> createRegistryKey]

\* the accumulator of one apply pass: next, nextKeys, and (for the record)
\* the positions whose key a createRegistryKey() call returned and the
\* number of such calls
EmptyPass == [next |-> EmptyMap, nextKeys |-> {}, minted |-> {}, calls |-> 0]

\* `value.get(prevPos)` without the `?? createRegistryKey()`
PrevKeysNoFallback(value, prevPos) ==
  IF MapHas(value, prevPos)
    THEN {[key |-> value[prevPos], gen |-> 0]}
    ELSE {[key |-> "undefined", gen |-> 0]}

\* the outcomes of `value.get(prevPos) ?? createRegistryKey()`
PrevKeys(value, prevPos) ==
  IF MapHas(value, prevPos)
    THEN {[key |-> value[prevPos], gen |-> 0]}
    ELSE {[key |-> k, gen |-> 1] : k \in createRegistryKey}

\* PickKeys without the nextKeys check: the looked-up key is always kept
PickKeysNoCollisionCheck(nextKeys, prevKey) == {prevKey}

\* the outcomes of `nextKeys.has(prevKey) ? createRegistryKey() : prevKey`
PickKeys(nextKeys, prevKey) ==
  IF prevKey.key \in nextKeys
    THEN {[key |-> k, gen |-> prevKey.gen + 1] : k \in createRegistryKey}
    ELSE {prevKey}

\* Callback without `if (node.isText) return false`
CallbackNoTextSkip(acc, t, value, toks, pos) ==
  LET prevPos == InvertMap(t, pos)
  IN {[next |-> MapSet(acc.next, pos, c.key),
       nextKeys |-> acc.nextKeys \cup {c.key},
       minted |-> IF c.gen > 0 THEN acc.minted \cup {pos} ELSE acc.minted,
       calls |-> acc.calls + c.gen] :
        c \in UNION {PickKeys(acc.nextKeys, pk) : pk \in PrevKeys(value, prevPos)}}

\* Callback without `nextKeys.add(key)`
CallbackNoMark(acc, t, value, toks, pos) ==
  IF isText(toks, pos) THEN {acc}
  ELSE LET prevPos == InvertMap(t, pos)
       IN {[next |-> MapSet(acc.next, pos, c.key),
            nextKeys |-> acc.nextKeys,
            minted |-> IF c.gen > 0 THEN acc.minted \cup {pos} ELSE acc.minted,
            calls |-> acc.calls + c.gen] :
             c \in UNION {PickKeys(acc.nextKeys, pk) : pk \in PrevKeys(value, prevPos)}}

\* Callback looking up `value.get(pos)`, the position unmapped
CallbackLookupNewPos(acc, t, value, toks, pos) ==
  IF isText(toks, pos) THEN {acc}
  ELSE {[next |-> MapSet(acc.next, pos, c.key),
         nextKeys |-> acc.nextKeys \cup {c.key},
         minted |-> IF c.gen > 0 THEN acc.minted \cup {pos} ELSE acc.minted,
         calls |-> acc.calls + c.gen] :
          c \in UNION {PickKeys(acc.nextKeys, pk) : pk \in PrevKeys(value, pos)}}

\* the callback apply passes to newState.doc.descendants, at one node
Callback(acc, t, value, toks, pos) ==
  IF isText(toks, pos) THEN {acc}
  ELSE LET prevPos == InvertMap(t, pos)
       IN {[next |-> MapSet(acc.next, pos, c.key),
            nextKeys |-> acc.nextKeys \cup {c.key},
            minted |-> IF c.gen > 0 THEN acc.minted \cup {pos} ELSE acc.minted,
            calls |-> acc.calls + c.gen] :
             c \in UNION {PickKeys(acc.nextKeys, pk) : pk \in PrevKeys(value, prevPos)}}

\* descendants visiting the nodes last to first
RECURSIVE DescendantsReversed(_, _, _, _, _)
DescendantsReversed(accs, rest, t, value, toks) ==
  IF rest = {} THEN accs
  ELSE LET pos == CHOOSE x \in rest : \A y \in rest : y <= x
       IN DescendantsReversed(UNION {Callback(acc, t, value, toks, pos) : acc \in accs},
                              rest \ {pos}, t, value, toks)

\* newState.doc.descendants(callback): the nodes in document order
RECURSIVE Descendants(_, _, _, _, _)
Descendants(accs, rest, t, value, toks) ==
  IF rest = {} THEN accs
  ELSE LET pos == SetMin(rest)
       IN Descendants(UNION {Callback(acc, t, value, toks, pos) : acc \in accs},
                      rest \ {pos}, t, value, toks)

\* apply without `if (!tr.docChanged) return value`: the map is always rebuilt
ApplyResultsNoFastPath(t, value, toks) ==
  Descendants({EmptyPass}, NodeStarts(toks), t, value, toks)

\* state.apply(tr, value, _, newState): the passes it can make; toks is
\* newState.doc
ApplyResults(t, value, toks) ==
  IF ~t.docChanged
    THEN {[next |-> value, nextKeys |-> {}, minted |-> {}, calls |-> 0]}
    ELSE Descendants({EmptyPass}, NodeStarts(toks), t, value, toks)

\* ---- findNearestRegistryKey ----
\* $pos.before(d): the start of the ancestor of pos at depth d
Before(toks, pos, d) ==
  LET cands == {q \in 0 .. (pos - 1) : toks[q + 1] \in Types /\ DepthAt(toks, q) = d - 1}
  IN CHOOSE q \in cands : \A r \in cands : r <= q

\* the loop run from depth 1 downward: the farthest tagged ancestor wins
WalkFromRoot(toks, registry, views, pos, d) ==
  LET hits == {e \in 1 .. d :
                 /\ toks[Before(toks, pos, e) + 1] \in views
                 /\ MapHas(registry, Before(toks, pos, e))}
  IN IF hits = {} THEN PORTAL_REGISTRY_ROOT_KEY
     ELSE registry[Before(toks, pos, SetMin(hits))]

\* the loop without the REACT_NODE_VIEW test: the nearest ancestor with an
\* entry wins
WalkAnyAncestor(toks, registry, views, pos, d) ==
  LET hits == {e \in 1 .. d : MapHas(registry, Before(toks, pos, e))}
  IN IF hits = {} THEN PORTAL_REGISTRY_ROOT_KEY
     ELSE registry[Before(toks, pos, CHOOSE e \in hits : \A f \in hits : f <= e)]

\* the loop giving up at the first tagged ancestor: a missing entry ends
\* the search with the root key
WalkStopAtTagged(toks, registry, views, pos, d) ==
  LET tagged == {e \in 1 .. d : toks[Before(toks, pos, e) + 1] \in views}
      near == CHOOSE e \in tagged : \A f \in tagged : f <= e
  IN IF tagged = {} THEN PORTAL_REGISTRY_ROOT_KEY
     ELSE IF MapHas(registry, Before(toks, pos, near))
            THEN registry[Before(toks, pos, near)]
            ELSE PORTAL_REGISTRY_ROOT_KEY

\* the loop run down to depth 0: for the root, $pos.before(0) throws
WalkToRoot(toks, registry, views, pos, d) ==
  LET hits == {e \in 1 .. d :
                 /\ toks[Before(toks, pos, e) + 1] \in views
                 /\ MapHas(registry, Before(toks, pos, e))}
  IN IF hits # {} THEN registry[Before(toks, pos, CHOOSE e \in hits : \A f \in hits : f <= e)]
     ELSE IF RootType \in views THEN "RangeError"
     ELSE PORTAL_REGISTRY_ROOT_KEY

\* the loop `for (d = $pos.depth; d > 0; d--)`, entered at depth d
RECURSIVE Walk(_, _, _, _, _)
Walk(toks, registry, views, pos, d) ==
  IF d <= 0 THEN PORTAL_REGISTRY_ROOT_KEY
  ELSE LET ancestorPos == Before(toks, pos, d)
           ancestorNodeTypeName == toks[ancestorPos + 1]
       IN IF ancestorNodeTypeName \notin views THEN Walk(toks, registry, views, pos, d - 1)
          ELSE IF MapHas(registry, ancestorPos) /\ registry[ancestorPos] # ""
                 THEN registry[ancestorPos]
                 ELSE Walk(toks, registry, views, pos, d - 1)

RangeError == "RangeError"

\* findNearestRegistryKey resolving the position before it looks at the
\* plugin state
findNearestRegistryKeyResolveFirst(toks, ps, views, pos) ==
  IF pos < 0 \/ pos > Len(toks) THEN RangeError
  ELSE IF ~ps.present THEN PORTAL_REGISTRY_ROOT_KEY
  ELSE Walk(toks, ps.value, views, pos, DepthAt(toks, pos))

\* findNearestRegistryKey(editorView, pos); doc.resolve throws a RangeError
\* for a position outside the document
findNearestRegistryKey(toks, ps, views, pos) ==
  IF ~ps.present THEN PORTAL_REGISTRY_ROOT_KEY
  ELSE IF pos < 0 \/ pos > Len(toks) THEN RangeError
  ELSE Walk(toks, ps.value, views, pos, DepthAt(toks, pos))

\* ---- state ----
VARIABLES
  doc,          \* editorView.state.doc
  pluginState,  \* reactNodeViewPlugin.getState(editorView.state)
  op,           \* the last operation on the plugin state
  tr,           \* the transaction of the last apply
  prev,         \* the plugin state the last apply was given
  pass,         \* minted positions and createRegistryKey calls of the last init/apply
  resolved,     \* the results of the lookups made against the current editor state
  nTr,          \* the number of transactions applied since state.init
  building      \* the apply call in progress, when its pass is followed node by node

vars == <<doc, pluginState, op, tr, prev, pass, resolved, nTr, building>>

\* no apply call in progress
Idle == [active |-> FALSE]

Absent == [present |-> FALSE, value |-> EmptyMap]
NoResolve == [x \in {} |-> ""]
NoPass == [minted |-> {}, calls |-> 0]

Docs == {toks \in UNION {[1 .. n -> Tokens] : n \in 0 .. MaxLen} : WellFormed(toks)}

\* an editor state whose plugins do not (yet) include reactNodeViewPlugin
Init ==
  /\ doc \in Docs
  /\ pluginState = Absent
  /\ op = "none"
  /\ tr = NoStepTr
  /\ prev = Absent
  /\ pass = NoPass
  /\ resolved = NoResolve
  /\ nTr = 0
  /\ building = Idle

\* EditorState.create / reconfigure with the plugin: state.init on the
\* current document, returning map m
InitStep(m) ==
  /\ m \in InitResults(doc)
  /\ pluginState' = [present |-> TRUE, value |-> m]
  /\ doc' = doc
  /\ nTr' = 0
  /\ building' = building

\* the one-step transactions the host can apply to the current document
Transactions ==
  {t \in {ReplaceTr(from, to, slice) : from \in 0 .. Len(doc), to \in 0 .. Len(doc), slice \in Slices} :
     /\ t.from <= t.to
     /\ t.to - t.from <= MaxDel
     /\ t.to - t.from + Len(t.slice) > 0
     /\ Len(ApplyStep(doc, t)) <= MaxLen
     /\ WellFormed(ApplyStep(doc, t))}

\* the host applies transaction t: the new editor state holds the new
\* document and the map state.apply returned, its pass ending in r
ApplyTr(t, r) ==
  /\ pluginState.present
  /\ nTr < MaxTr
  /\ r \in ApplyResults(t, pluginState.value, ApplyStep(doc, t))
  /\ doc' = ApplyStep(doc, t)
  /\ pluginState' = [present |-> TRUE, value |-> r.next]
  /\ nTr' = nTr + 1
  /\ building' = building

\* ---- the registry, with the last operation on record ----
PluginInit ==
  /\ \E m \in InitResults(doc) :
       /\ InitStep(m)
       /\ pass' = [minted |-> DOMAIN m, calls |-> Cardinality(DOMAIN m)]
  /\ op' = "init"
  /\ tr' = NoStepTr
  /\ prev' = Absent
  /\ UNCHANGED resolved

ApplyDocChanged ==
  /\ pluginState.present /\ nTr < MaxTr
  /\ \E t \in Transactions :
       \E r \in ApplyResults(t, pluginState.value, ApplyStep(doc, t)) :
         /\ ApplyTr(t, r)
         /\ tr' = t
         /\ pass' = [minted |-> r.minted, calls |-> r.calls]
  /\ op' = "apply"
  /\ prev' = pluginState
  /\ UNCHANGED resolved

ApplyUnchanged ==
  /\ pluginState.present /\ nTr < MaxTr
  /\ \E r \in ApplyResults(NoStepTr, pluginState.value, ApplyStep(doc, NoStepTr)) :
       /\ ApplyTr(NoStepTr, r)
       /\ pass' = [minted |-> r.minted, calls |-> r.calls]
  /\ tr' = NoStepTr
  /\ op' = "apply"
  /\ prev' = pluginState
  /\ UNCHANGED resolved

Next == PluginInit \/ ApplyDocChanged \/ ApplyUnchanged

Spec == Init /\ [][Next]_vars

\* ---- the resolver over the registry ----
ViewInit ==
  /\ \E m \in InitResults(doc) : InitStep(m)
  /\ resolved' = NoResolve
  /\ UNCHANGED <<op, tr, prev, pass>>

ViewDocChanged ==
  /\ pluginState.present /\ nTr < MaxTr
  /\ \E t \in Transactions :
       \E r \in ApplyResults(t, pluginState.value, ApplyStep(doc, t)) : ApplyTr(t, r)
  /\ resolved' = NoResolve
  /\ UNCHANGED <<op, tr, prev, pass>>

ViewUnchanged ==
  /\ pluginState.present /\ nTr < MaxTr
  /\ \E r \in ApplyResults(NoStepTr, pluginState.value, ApplyStep(doc, NoStepTr)) :
       ApplyTr(NoStepTr, r)
  /\ resolved' = NoResolve
  /\ UNCHANGED <<op, tr, prev, pass>>

\* the arguments a caller can hand to findNearestRegistryKey in the current
\* editor state: a position (one past the document included) and the type
\* names whose node view constructor carries REACT_NODE_VIEW
Lookups == (0 .. (Len(doc) + 1)) \X (SUBSET ViewTypes)

\* reactNodeViewPlugin.getState(editorView.state) while the apply call b
\* builds its map: the state the builder publishes before it is complete
getStateInProgress(ps, b) ==
  IF b.active THEN [present |-> TRUE, value |-> b.acc.next] ELSE ps

\* reactNodeViewPlugin.getState(editorView.state): the plugin state of the
\* editor state the view holds, whatever apply call b is in progress
getState(ps, b) == ps

\* the callers look up the key that owns each position (once per state of
\* the editor: a repeated lookup returns the same keys and changes nothing)
Resolve ==
  /\ resolved = NoResolve
  /\ resolved' = [x \in Lookups |->
                    findNearestRegistryKey(doc, getState(pluginState, building), x[2], x[1])]
  /\ UNCHANGED <<doc, pluginState, op, tr, prev, pass, nTr, building>>

ViewNext == ViewInit \/ ViewDocChanged \/ ViewUnchanged \/ Resolve

ViewSpec == Init /\ [][ViewNext]_vars

\* ---- vocabulary of the properties ----
\* the position just after the node that starts at q
NodeEnd(toks, q) ==
  IF toks[q + 1] \in Types
    THEN SetMin({e \in (q + 1) .. Len(toks) : DepthAt(toks, e) = DepthAt(toks, q)})
    ELSE SetMin({e \in (q + 1) .. Len(toks) : e = Len(toks) \/ toks[e + 1] # Text})

\* the last apply rebuilt the map for a transaction that changed the document
Reconciled == op = "apply" /\ tr.docChanged

\* the nodes of the new document that the last transaction left alone: they
\* lie wholly before or wholly after the replaced range
Untouched(q) ==
  \/ NodeEnd(doc, q) <= tr.from
  \/ q >= tr.from + Len(tr.slice)

\* where an untouched node was in the previous document
OldPos(q) == IF q >= tr.from + Len(tr.slice) THEN q - Len(tr.slice) + (tr.to - tr.from) ELSE q

\* the nodes of the new document that came with the slice of the last transaction
Created(q) == tr.from <= q /\ q < tr.from + Len(tr.slice)

\* the starts of the ancestors (root excluded) of position p whose type is in views
TaggedAncestors(toks, p, views) ==
  {q \in 0 .. (p - 1) :
     /\ toks[q + 1] \in Types \cap views
     /\ \A e \in (q + 1) .. p : DepthAt(toks, e) > DepthAt(toks, q)}

SetMax(S) == CHOOSE x \in S : \A y \in S : y <= x

\* ---- C1 ----
\* C1: after a document-changing apply, every structural node the
\* transaction left untouched, whose new position the inverse mapping takes
\* to its old position, holds the key the previous map held at that old
\* position, wherever the other nodes map back to.
C1_KeyStability ==
  Reconciled =>
    \A q \in StructuralStarts(doc) :
      (Untouched(q) /\ InvertMap(tr, q) = OldPos(q) /\ MapHas(prev.value, OldPos(q)))
        => pluginState.value[q] = prev.value[OldPos(q)]

\* ---- C2 ----
\* C2: in every registry state no two positions of the current map hold the
\* same key.
C2_KeyUniqueness ==
  pluginState.present =>
    \A p, q \in DOMAIN pluginState.value :
      p # q => pluginState.value[p] # pluginState.value[q]

\* ---- C3 ----
\* C3: after a document-changing apply, every structural node that the
\* transaction created holds a key that is not a value of the previous map.
C3_InsertionFresh ==
  Reconciled =>
    \A q \in StructuralStarts(doc) :
      Created(q) => pluginState.value[q] \notin Values(prev.value)

\* ---- C4 ----
\* two structural nodes of the new document, p1 before p2, that both map
\* back to one old position that held a key
Duplicated(p1, p2) ==
  /\ p1 \in StructuralStarts(doc) /\ p2 \in StructuralStarts(doc)
  /\ p1 < p2
  /\ InvertMap(tr, p1) = InvertMap(tr, p2)
  /\ MapHas(prev.value, InvertMap(tr, p1))

C5_InitStructuralOnly ==
  op = "init" =>
    /\ StructuralStarts(doc) \subseteq DOMAIN pluginState.value
    /\ TextStarts(doc) \cap DOMAIN pluginState.value = {}

\* ---- C6 ----
\* C6: after a document-changing apply the positions of the map are exactly
\* the positions of the structural nodes of the new document.
C6_ReconcileDomain ==
  Reconciled => DOMAIN pluginState.value = StructuralStarts(doc)

C6_Witness ==
  /\ Reconciled
  /\ TextStarts(doc) # {}
  /\ StructuralStarts(doc) # {}
  /\ \E p \in DOMAIN prev.value : p \notin StructuralStarts(doc)

\* ---- C7 ----
\* C7: an apply for a transaction that did not change the document returns
\* the map it was given and calls createRegistryKey not once.
C7_NoOpStability ==
  (op = "apply" /\ ~tr.docChanged) =>
    /\ pluginState = prev
    /\ pass.calls = 0
    /\ pass.minted = {}

C7_Witness ==
  /\ op = "apply" /\ ~tr.docChanged
  /\ pluginState.present
  /\ DOMAIN pluginState.value # StructuralStarts(doc)
  /\ StructuralStarts(doc) # {}

\* ---- C8 ----
\* C8: with the map of the current document, a lookup at a position that
\* has an ancestor of a tagged type returns the key the map holds at the
\* start of the deepest such ancestor, and never the root key.
C8_NearestMatch ==
  pluginState.present =>
    \A x \in DOMAIN resolved :
      (x[1] <= Len(doc) /\ TaggedAncestors(doc, x[1], x[2]) # {}) =>
        /\ resolved[x] = pluginState.value[SetMax(TaggedAncestors(doc, x[1], x[2]))]
        /\ resolved[x] # PORTAL_REGISTRY_ROOT_KEY

C8_Witness ==
  /\ pluginState.present
  /\ \E x \in DOMAIN resolved :
       /\ x[1] <= Len(doc)
       /\ Cardinality(TaggedAncestors(doc, x[1], x[2])) >= 2
       /\ resolved[x] = pluginState.value[SetMax(TaggedAncestors(doc, x[1], x[2]))]
       /\ resolved[x] # pluginState.value[SetMin(TaggedAncestors(doc, x[1], x[2]))]

\* ---- C9 ----
\* C9: a lookup at a position none of whose ancestors has a tagged type
\* returns the root key, whatever the map holds.
C9_Fallback ==
  \A x \in DOMAIN resolved :
    (x[1] <= Len(doc) /\ TaggedAncestors(doc, x[1], x[2]) = {}) =>
      resolved[x] = PORTAL_REGISTRY_ROOT_KEY

C9_Witness ==
  /\ pluginState.present
  /\ \E x \in DOMAIN resolved :
       /\ x[1] <= Len(doc)
       /\ x[2] # {}
       /\ TaggedAncestors(doc, x[1], x[2]) = {}
       /\ TaggedAncestors(doc, x[1], Types) # {}
       /\ TaggedAncestors(doc, x[1], Types) \subseteq DOMAIN pluginState.value
       /\ resolved[x] = PORTAL_REGISTRY_ROOT_KEY

\* ---- C10 ----
\* C10: while the editor state holds no plugin state, every lookup returns
\* the root key, also for a position that the document cannot resolve.
C10_PreInit ==
  ~pluginState.present =>
    \A x \in DOMAIN resolved : resolved[x] = PORTAL_REGISTRY_ROOT_KEY

C10_Witness ==
  /\ ~pluginState.present
  /\ \E x \in DOMAIN resolved :
       /\ x[1] > Len(doc)
       /\ resolved[x] = PORTAL_REGISTRY_ROOT_KEY
  /\ \E x \in DOMAIN resolved :
       /\ x[1] <= Len(doc)
       /\ TaggedAncestors(doc, x[1], x[2]) # {}
       /\ resolved[x] = PORTAL_REGISTRY_ROOT_KEY

\* ---- the resolver over an arbitrary map ----
\* the maps a lookup can meet when the map is not the one of the document:
\* any entries at any node positions
StaleMaps(toks) == UNION {[S -> createRegistryKey] : S \in SUBSET NodeStarts(toks)}

StaleInit ==
  /\ doc \in Docs
  /\ pluginState \in {[present |-> TRUE, value |-> m] : m \in StaleMaps(doc)}
  /\ op = "none"
  /\ tr = NoStepTr
  /\ prev = Absent
  /\ pass = NoPass
  /\ resolved = NoResolve
  /\ nTr = 0
  /\ building = Idle

StaleNext == Resolve

StaleSpec == StaleInit /\ [][StaleNext]_vars

\* ---- C11 ----
\* the tagged ancestors of p whose start has an entry in the map
TaggedWithEntry(toks, registry, p, views) ==
  {q \in TaggedAncestors(toks, p, views) : MapHas(registry, q)}

\* C11: for an arbitrary map, a lookup skips every tagged ancestor whose
\* start has no entry: it returns the key of the deepest tagged ancestor
\* that has one, the root key when none has, and raises no error.
C11_StaleMapTolerated ==
  pluginState.present =>
    \A x \in DOMAIN resolved :
      x[1] <= Len(doc) =>
        resolved[x] =
          IF TaggedWithEntry(doc, pluginState.value, x[1], x[2]) = {}
            THEN PORTAL_REGISTRY_ROOT_KEY
            ELSE pluginState.value[SetMax(TaggedWithEntry(doc, pluginState.value, x[1], x[2]))]

C11_Witness ==
  /\ pluginState.present
  /\ \E x \in DOMAIN resolved :
       /\ x[1] <= Len(doc)
       /\ TaggedWithEntry(doc, pluginState.value, x[1], x[2]) # {}
       /\ SetMax(TaggedAncestors(doc, x[1], x[2])) \notin DOMAIN pluginState.value
       /\ resolved[x] = pluginState.value[SetMax(TaggedWithEntry(doc, pluginState.value, x[1], x[2]))]
  /\ \E x \in DOMAIN resolved :
       /\ x[1] <= Len(doc)
       /\ TaggedAncestors(doc, x[1], x[2]) # {}
       /\ TaggedWithEntry(doc, pluginState.value, x[1], x[2]) = {}
       /\ resolved[x] = PORTAL_REGISTRY_ROOT_KEY

\* ---- C12 ----
\* C12: the root is never matched: when the root's type is tagged and no
\* ancestor at depth 1 or deeper is, a lookup returns the root key.
C12_RootNeverMatched ==
  pluginState.present =>
    \A x \in DOMAIN resolved :
      (x[1] <= Len(doc) /\ RootType \in x[2] /\ TaggedAncestors(doc, x[1], x[2]) = {}) =>
        resolved[x] = PORTAL_REGISTRY_ROOT_KEY

C12_Witness ==
  /\ pluginState.present
  /\ 0 \in DOMAIN pluginState.value
  /\ \E x \in DOMAIN resolved :
       /\ x[1] <= Len(doc)
       /\ x[1] > 0
       /\ x[2] = {RootType}
       /\ TaggedAncestors(doc, x[1], Types) # {}
       /\ resolved[x] = PORTAL_REGISTRY_ROOT_KEY

\* ---- apply followed node by node ----
\* value written in place of next: `value.set(pos, key)`
ValueWrittenInPlace(value, acc) ==
  [x \in (DOMAIN value) \cup (DOMAIN acc.next) |->
     IF x \in DOMAIN acc.next THEN acc.next[x] ELSE value[x]]

\* the map apply was given, after one call of the callback that left the
\* pass at acc: the callback reads it (value.get) and writes only next
ValueAfterCallback(value, acc) == value

\* the host calls state.apply(tr, value, _, newState) for transaction t
BeginApply ==
  /\ ~building.active
  /\ pluginState.present
  /\ nTr < MaxPasses
  /\ \E t \in Transactions \cup {NoStepTr} :
       building' = [active |-> TRUE, t |-> t, doc |-> ApplyStep(doc, t),
                    rest |-> IF t.docChanged THEN NodeStarts(ApplyStep(doc, t)) ELSE {},
                    acc |-> IF t.docChanged THEN EmptyPass
                            ELSE CHOOSE r \in ApplyResults(t, pluginState.value, doc) : TRUE,
                    given |-> pluginState]
  /\ resolved' = NoResolve
  /\ UNCHANGED <<doc, pluginState, op, tr, prev, pass, nTr>>

\* descendants calls the callback for the next node in document order
VisitNode ==
  /\ building.active
  /\ building.rest # {}
  /\ \E acc \in Callback(building.acc, building.t, pluginState.value, building.doc,
                         SetMin(building.rest)) :
       /\ building' = [building EXCEPT !.acc = acc, !.rest = @ \ {SetMin(building.rest)}]
       /\ pluginState' = [pluginState EXCEPT !.value = ValueAfterCallback(@, acc)]
  /\ resolved' = NoResolve
  /\ UNCHANGED <<doc, op, tr, prev, pass, nTr>>

\* apply returns next and the host installs the new editor state
ReturnApply ==
  /\ building.active
  /\ building.rest = {}
  /\ doc' = building.doc
  /\ pluginState' = [present |-> TRUE, value |-> building.acc.next]
  /\ building' = Idle
  /\ nTr' = nTr + 1
  /\ resolved' = NoResolve
  /\ UNCHANGED <<op, tr, prev, pass>>

StepInit == ~building.active /\ ViewInit

StepNext == StepInit \/ BeginApply \/ VisitNode \/ ReturnApply \/ Resolve

StepSpec == Init /\ [][StepNext]_vars

\* ---- C13 ----
\* C13: a published map is never modified: every step that looks up keys
\* or that belongs to an apply call still in progress leaves the document
\* and the plugin state of the editor state as they are, and when apply
\* returns its new map, the map it was given is still as it was given.
C13_PublishedMapsImmutable ==
  [][/\ (building'.active \/ resolved' # NoResolve) => (pluginState' = pluginState /\ doc' = doc)
     /\ (building.active /\ ~building'.active) => pluginState = building.given]_vars

C13_Witness ==
  /\ building.active
  /\ building.t.docChanged
  /\ building.rest = {}
  /\ DOMAIN building.acc.next # {}
  /\ building.acc.next # pluginState.value
  /\ pluginState = building.given
  /\ resolved # NoResolve

\* ---- C14 ----
\* the map of the editor state has an entry for every structural node of
\* the document of the editor state
FullyFormed == StructuralStarts(doc) \subseteq DOMAIN pluginState.value

\* C14: whenever lookups are made, also between two callback calls of an
\* apply in progress, they are answered from a map that is complete for the
\* committed document: each returns the key of the deepest tagged ancestor,
\* none is answered from the map under construction.
C14_AtomicVisibility ==
  (resolved # NoResolve /\ pluginState.present) =>
    /\ FullyFormed
    /\ \A x \in DOMAIN resolved :
         x[1] <= Len(doc) =>
           LET tagged == TaggedAncestors(doc, x[1], x[2])
           IN resolved[x] =
                IF tagged = {} THEN PORTAL_REGISTRY_ROOT_KEY
                ELSE pluginState.value[SetMax(tagged)]

C14_Witness ==
  /\ building.active
  /\ building.rest # {}
  /\ DOMAIN building.acc.next # {}
  /\ resolved # NoResolve
  /\ \E x \in DOMAIN resolved :
       /\ x[1] <= Len(doc)
       /\ TaggedAncestors(doc, x[1], x[2]) # {}
       /\ SetMax(TaggedAncestors(doc, x[1], x[2])) \notin DOMAIN building.acc.next
       /\ resolved[x] = pluginState.value[SetMax(TaggedAncestors(doc, x[1], x[2]))]

\* ---- the generator assumption of C15, C17 and C18 ----
\* in the last pass createRegistryKey returned no key twice and no value of
\* the previous map: no generated key was thrown away as already used, and
\* the generated keys in the map are pairwise distinct and new
GeneratorFresh ==
  /\ pass.calls = Cardinality(pass.minted)
  /\ \A p \in pass.minted : pluginState.value[p] \notin Values(prev.value)
  /\ \A p, q \in pass.minted : p # q => pluginState.value[p] # pluginState.value[q]

\* the previous map held no key twice (so it is when the generator never
\* repeated itself before either)
PrevUnique ==
  \A p, q \in DOMAIN prev.value : p # q => prev.value[p] # prev.value[q]

\* the structural nodes of the new document that map back to old position o
MappedBackTo(o) == {q \in StructuralStarts(doc) : InvertMap(tr, q) = o}

\* ---- C15 ----
\* C15: in a pass, a position whose looked-up key was already given to an
\* earlier position receives a generated key instead; and when the generator
\* is fresh, no key of the previous map is at two positions of the new map.
C15_CollisionRule ==
  Reconciled =>
    /\ \A q \in StructuralStarts(doc) :
         (/\ MapHas(prev.value, InvertMap(tr, q))
          /\ \E p \in StructuralStarts(doc) :
               p < q /\ pluginState.value[p] = prev.value[InvertMap(tr, q)])
           => q \in pass.minted
    /\ GeneratorFresh =>
         \A p, q \in DOMAIN pluginState.value :
           (p # q /\ pluginState.value[p] \in Values(prev.value))
             => pluginState.value[p] # pluginState.value[q]

C15_Witness ==
  /\ Reconciled
  /\ GeneratorFresh
  /\ \E q \in StructuralStarts(doc) :
       /\ MapHas(prev.value, InvertMap(tr, q))
       /\ \E p \in StructuralStarts(doc) :
            p < q /\ pluginState.value[p] = prev.value[InvertMap(tr, q)]
       /\ q \in pass.minted
       /\ pluginState.value[q] \notin Values(prev.value)

\* ---- C16 ----
\* C16: a structural node whose mapped-back position has no entry in the
\* previous map receives a generated key; and apply has an outcome for every
\* transaction (checked in the states state.init leaves, for every
\* transaction on them).
C16_MissingPriorKey ==
  /\ Reconciled =>
       \A q \in StructuralStarts(doc) :
         ~MapHas(prev.value, InvertMap(tr, q)) =>
           /\ q \in pass.minted
           /\ MapHas(pluginState.value, q)
           /\ pluginState.value[q] \in createRegistryKey
  /\ op = "init" =>
       \A t \in Transactions :
         \E r \in ApplyResults(t, pluginState.value, ApplyStep(doc, t)) :
           DOMAIN r.next = StructuralStarts(ApplyStep(doc, t))

C16_Witness ==
  /\ Reconciled
  /\ \E q \in StructuralStarts(doc) :
       /\ ~MapHas(prev.value, InvertMap(tr, q))
       /\ q \in pass.minted
       /\ pluginState.value[q] \in createRegistryKey
  /\ \E q \in StructuralStarts(doc) : q \notin pass.minted

C18_NoMigration ==
  (Reconciled /\ GeneratorFresh) =>
    \A p \in DOMAIN pluginState.value :
      pluginState.value[p] \in Values(prev.value) =>
        /\ MapHas(prev.value, InvertMap(tr, p))
        /\ pluginState.value[p] = prev.value[InvertMap(tr, p)]

C18_Witness ==
  /\ Reconciled /\ GeneratorFresh
  /\ \E p \in DOMAIN pluginState.value :
       /\ InvertMap(tr, p) # p
       /\ MapHas(prev.value, InvertMap(tr, p))
       /\ pluginState.value[p] = prev.value[InvertMap(tr, p)]
       /\ MapHas(prev.value, p)
       /\ prev.value[p] # pluginState.value[p]
====
